---- MODULE Spec2Model ----
(***************************************************************************)
(* Model of pytech/data/reader.py: BarReader.get_data and the helpers it   *)
(* calls (_single_get_data, _from_db, _from_web, _concat_dfs,              *)
(* _mult_tickers_get_data).                                                *)
(*                                                                         *)
(* Dates are day numbers 0..MaxDay.  Day 0 is a Wednesday, so that the     *)
(* window holds trading days on both sides of one weekend.  A DataFrame is *)
(* a record [index_name, index, rows]: `index` is the sequence of index    *)
(* labels and `rows` the sequence of column records, of equal length.      *)
(***************************************************************************)
EXTENDS Integers, Sequences, FiniteSets, TLC

\* Last day number of the modelled calendar window.
MaxDay == 6

Days == 0..MaxDay

Tickers == {"A", "B", "C"}

\* reader.py:38-39
YAHOO == "yahoo"
GOOGLE == "google"
Sources == {YAHOO, GOOGLE}

\* utils.DATE_COL, utils.TICKER_COL (canonical bar schema)
DATE_COL == "date"
TICKER_COL == "ticker"

\* The library name the reader was constructed with (self.lib_name).
LibName == "bars"

\* Python's None, the df of a failed ReaderResult.
None == [none |-> TRUE]

\* np.nan
NaN == "NaN"

\* A symbol that is not in the library.
Absent == [absent |-> TRUE]

\* The exception values the collaborators raise.
RemoteDataError == [exc |-> "RemoteDataError"]
NoDataFoundException == [exc |-> "NoDataFoundException"]
KeyError == [exc |-> "KeyError"]

VARIABLES
    store,      \* the arctic library: symbol -> stored DataFrame, or Absent
    web,        \* the provider's data: ticker -> set of days it has bars for
    down,       \* tickers for which the provider call raises RemoteDataError
    keyfault,   \* symbols whose lib.read raises KeyError (the arctic fault)
    phase,      \* "idle", "running" (a batch is in its pool), "done"
    req,        \* the arguments of the current / last get_data call
    res,        \* the ReaderResult of each pool task, or Pending
    log,        \* the store reads and provider calls made by each task
    out,        \* what get_data returned or raised
    arctic,     \* ARCTIC_STORE: library name -> library, or NotListed
    readers     \* the BarReader objects constructed so far

vars == <<store, web, down, keyfault, phase, req, res, log, out, arctic,
          readers>>

----------------------------------------------------------------------------
(* Calendar *)

\* datetime.weekday(): Monday is 0, Sunday is 6.
weekday(d) == (d + 2) % 7

\* utils.is_trade_day: weekends are not trading days.
is_trade_day(d) == weekday(d) < 5

\* utils.parse_date on an index label: the same day as a datetime.
parse_date(d) == d

\* MinusBDay with a slip: one calendar day is taken off.
MinusBDay_calendar(d) == d - 1

\* ts - BDay(): the last business day strictly before ts.
MinusBDay(d) ==
    CHOOSE x \in (d - 3)..(d - 1) :
        /\ weekday(x) < 5
        /\ \A y \in (x + 1)..(d - 1) : weekday(y) >= 5

TradeDays(a, b) == {d \in a..b : is_trade_day(d)}

----------------------------------------------------------------------------
(* DataFrames *)

SetMin(S) == CHOOSE x \in S : \A y \in S : x <= y
SetMax(S) == CHOOSE x \in S : \A y \in S : x >= y

RECURSIVE SortedSeq(_)
SortedSeq(S) ==
    IF S = {} THEN <<>>
    ELSE LET m == SetMin(S) IN <<m>> \o SortedSeq(S \ {m})

Range(s) == {s[i] : i \in DOMAIN s}

\* df.empty
empty(df) == Len(df.index) = 0

\* df.index.min(), df.index.max()
index_min(df) == SetMin(Range(df.index))
index_max(df) == SetMax(Range(df.index))

\* The rows of df whose index label satisfies keep, in order.
RECURSIVE KeepFrom(_, _, _, _)
KeepFrom(df, lo, hi, i) ==
    IF i > Len(df.index) THEN [df EXCEPT !.index = <<>>, !.rows = <<>>]
    ELSE LET rest == KeepFrom(df, lo, hi, i + 1) IN
         IF lo <= df.index[i] /\ df.index[i] <= hi
         THEN [rest EXCEPT !.index = <<df.index[i]>> \o @,
                           !.rows = <<df.rows[i]>> \o @]
         ELSE rest

\* pd.concat(frames): rows and index labels appended in the order given.
RECURSIVE pd_concat(_)
pd_concat(frames) ==
    IF Len(frames) = 1 THEN frames[1]
    ELSE LET h == frames[1]
             t == pd_concat(Tail(frames))
         IN [h EXCEPT !.index = @ \o t.index, !.rows = @ \o t.rows]

\* x bound to a name inside F: Let(e, LAMBDA v : body) is body with v = e.
Let(x, F(_)) == CHOOSE v \in {F(y) : y \in {x}} : TRUE

\* A canonical frame of ticker t over the days of S, every close being px.
Frame(t, S, px) ==
    [index_name |-> DATE_COL,
     index |-> SortedSeq(S),
     rows |-> [i \in 1..Cardinality(S) |-> [close |-> px, ticker |-> t]]]

----------------------------------------------------------------------------
(* Collaborators: the arctic library and the web provider *)

\* self.lib.read(symbol, chunk_range=DateRange(start, end), filter_data):
\* the stored rows whose date lies in [start, end]; raises
\* NoDataFoundException for an unknown symbol and KeyError on the arctic fault.
\* Every call of the model passes filter_data = True, the default of get_data.
lib_read(st, symbol, start, end) ==
    IF symbol \in keyfault THEN KeyError
    ELSE IF st[symbol] = Absent THEN NoDataFoundException
    ELSE KeepFrom(st[symbol], start, end, 1)

\* pdr.DataReader(name, data_source, start, end): the provider's bars of
\* [start, end] in the provider's own schema.  yahoo returns the date as a
\* column over a positional index, the others index by date.
DataReader(name, data_source, start, end) ==
    IF name \in down THEN RemoteDataError
    ELSE LET days == SortedSeq({d \in web[name] : start <= d /\ d <= end}) IN
         IF data_source = YAHOO
         THEN [index_name |-> "",
               index |-> [i \in 1..Len(days) |-> i - 1],
               rows |-> [i \in 1..Len(days) |->
                            [Date |-> days[i], Close |-> data_source]]]
         ELSE [index_name |-> "Date",
               index |-> days,
               rows |-> [i \in 1..Len(days) |-> [Close |-> data_source]]]

\* utils.rename_bar_cols: provider column names to the canonical schema.
canonical_col(c) ==
    CASE c = "Date" -> DATE_COL
      [] c = "Close" -> "close"
      [] OTHER -> c

rename_bar_cols(df) ==
    [df EXCEPT !.rows =
        [i \in 1..Len(df.rows) |->
            [c \in {canonical_col(k) : k \in DOMAIN df.rows[i]} |->
                df.rows[i][CHOOSE k \in DOMAIN df.rows[i] : canonical_col(k) = c]]]]

\* df[col] = value
set_column(df, col, value) ==
    [df EXCEPT !.rows =
        [i \in 1..Len(df.rows) |->
            [c \in DOMAIN df.rows[i] \cup {col} |->
                IF c = col THEN value ELSE df.rows[i][c]]]]

\* df.set_index([col])
set_index(df, col) ==
    [index_name |-> col,
     index |-> [i \in 1..Len(df.rows) |-> df.rows[i][col]],
     rows |-> [i \in 1..Len(df.rows) |->
                  [c \in DOMAIN df.rows[i] \ {col} |-> df.rows[i][c]]]]

\* pytech.data._holders.ReaderResult(lib_name, ticker, df=None, successful=True)
ReaderResult(lib_name, ticker, df, successful) ==
    [lib_name |-> lib_name, ticker |-> ticker, df |-> df,
     successful |-> successful]

\* The decorator with a write in it: a successful result is stored under its
\* ticker.
write_chunks_upsert(st, rr) ==
    IF rr.successful THEN [st EXCEPT ![rr.ticker] = rr.df] ELSE st

\* The library after the write_chunks decorator has seen the wrapped
\* function's result: a read path leaves the library as it was.
write_chunks(st, rr) == st

\* The log entries of a task.
ReadEvent(ticker, start, end) ==
    [op |-> "lib.read", ticker |-> ticker, start |-> start, end |-> end]
WebEvent(ticker, source, start, end) ==
    [op |-> "DataReader", ticker |-> ticker, source |-> source,
     start |-> start, end |-> end]

----------------------------------------------------------------------------
(* BarReader *)

\* _from_web with a slip: a provider failure is raised as DataAccessError
\* instead of being returned as a failed result.
_from_web_raises(st, lg, ticker, source, start, end) ==
    Let(DataReader(ticker, source, start, end), LAMBDA resp :
    Let(IF resp = RemoteDataError THEN TRUE ELSE empty(resp), LAMBDA failed :
    [raised |-> failed,
     rr |-> IF failed THEN ReaderResult(LibName, ticker, None, FALSE)
            ELSE ReaderResult(LibName, ticker,
                              Frame(ticker,
                                    {d \in web[ticker] : start <= d /\ d <= end},
                                    source), TRUE),
     store |-> st,
     log |-> Append(lg, WebEvent(ticker, source, start, end))]))

\* _from_web with a slip: a failed provider call is made a second time.
_from_web_retries(st, lg, ticker, source, start, end) ==
    Let(DataReader(ticker, source, start, end), LAMBDA resp :
    Let(IF resp = RemoteDataError THEN TRUE ELSE empty(resp), LAMBDA failed :
    [raised |-> FALSE,
     rr |-> IF failed THEN ReaderResult(LibName, ticker, None, FALSE)
            ELSE ReaderResult(LibName, ticker,
                              Frame(ticker,
                                    {d \in web[ticker] : start <= d /\ d <= end},
                                    source), TRUE),
     store |-> st,
     log |-> IF failed
             THEN lg \o <<WebEvent(ticker, source, start, end),
                          WebEvent(ticker, source, start, end)>>
             ELSE Append(lg, WebEvent(ticker, source, start, end))]))

\* BarReader._from_web, with its decorator.  st is the library and lg the
\* task's log on entry; the result holds both on exit.
_from_web(st, lg, ticker, source, start, end) ==
    Let(DataReader(ticker, source, start, end), LAMBDA resp :
    Let(IF resp = RemoteDataError THEN TRUE ELSE empty(resp), LAMBDA failed :
    Let(IF failed THEN None
        ELSE set_column(rename_bar_cols(resp), TICKER_COL, ticker),
        LAMBDA renamed :
    Let(IF failed
        THEN ReaderResult(LibName, ticker, None, FALSE)
        ELSE ReaderResult(LibName, ticker,
                          IF source = YAHOO
                          THEN set_index(renamed, DATE_COL)
                          ELSE [renamed EXCEPT !.index_name = DATE_COL],
                          TRUE),
        LAMBDA rr :
    [raised |-> FALSE,
     rr |-> rr,
     store |-> write_chunks(st, rr),
     log |-> Append(lg, WebEvent(ticker, source, start, end))]))))

\* _concat_dfs with a slip: a lone edge is dropped.
_concat_dfs_drops_lone_edge(lower_df, upper_df, df) ==
    IF lower_df # None /\ upper_df # None
    THEN pd_concat(<<df, upper_df, lower_df>>)
    ELSE df

\* _concat_dfs with a slip: with both edges the lower rows come before the
\* upper ones.
_concat_dfs_lower_first(lower_df, upper_df, df) ==
    IF lower_df = None /\ upper_df = None THEN df
    ELSE IF lower_df # None /\ upper_df = None THEN pd_concat(<<df, lower_df>>)
    ELSE IF lower_df = None /\ upper_df # None THEN pd_concat(<<df, upper_df>>)
    ELSE pd_concat(<<df, lower_df, upper_df>>)

\* _concat_dfs
_concat_dfs(lower_df, upper_df, df) ==
    IF lower_df = None /\ upper_df = None THEN df
    ELSE IF lower_df # None /\ upper_df = None THEN pd_concat(<<df, lower_df>>)
    ELSE IF lower_df = None /\ upper_df # None THEN pd_concat(<<df, upper_df>>)
    ELSE IF lower_df # None /\ upper_df # None
         THEN pd_concat(<<df, upper_df, lower_df>>)
    ELSE df

\* The edge conditions with a slip: the trading-day gate left out of the
\* lower one, the upper bound compared with <= .
lower_missing_ungated(db_start, start) == db_start > start
upper_missing_inclusive(db_end, end) == db_end <= end /\ is_trade_day(end)

\* The upper edge condition with a slip: the trading-day gate left out.
upper_missing_ungated(db_end, end) == db_end < end

\* The two edge conditions of _from_db.
lower_missing(db_start, start) == db_start > start /\ is_trade_day(start)
upper_missing(db_end, end) == db_end < end /\ is_trade_day(end)

\* _from_db with a slip: the lower edge is backfilled from google only, so
\* that the source decides which edges are fetched.
_from_db_source_gated(st, lg, ticker, source, start, end, filter_data) ==
    Let(Append(lg, ReadEvent(ticker, start, end)), LAMBDA lg1 :
    Let(lib_read(st, ticker, start, end), LAMBDA df :
    IF df = KeyError \/ df = NoDataFoundException
    THEN [raised |-> FALSE,
          rr |-> ReaderResult(LibName, ticker, None, FALSE),
          store |-> st, log |-> lg1]
    ELSE IF empty(df)
    THEN [raised |-> TRUE, rr |-> None, store |-> st, log |-> lg1]
    ELSE
    Let(parse_date(index_min(df)), LAMBDA db_start :
    Let(parse_date(index_max(df)), LAMBDA db_end :
    Let(IF lower_missing(db_start, start) /\ source # YAHOO
        THEN _from_web(st, lg1, ticker, source, start, MinusBDay(db_start))
        ELSE [raised |-> FALSE, rr |-> [df |-> None],
              store |-> st, log |-> lg1],
        LAMBDA lower :
    IF lower.raised THEN lower
    ELSE
    Let(IF upper_missing(db_end, end)
        THEN _from_web(lower.store, lower.log, ticker, source, db_end, end)
        ELSE [raised |-> FALSE, rr |-> [df |-> None],
              store |-> lower.store, log |-> lower.log],
        LAMBDA upper :
    IF upper.raised THEN upper
    ELSE
    [raised |-> FALSE,
     rr |-> ReaderResult(LibName, ticker,
                         _concat_dfs(lower.rr.df, upper.rr.df, df), TRUE),
     store |-> upper.store, log |-> upper.log]))))))

\* BarReader._from_db.  raised is TRUE when it raises DataAccessError.
_from_db(st, lg, ticker, source, start, end, filter_data) ==
    Let(Append(lg, ReadEvent(ticker, start, end)), LAMBDA lg1 :
    Let(lib_read(st, ticker, start, end), LAMBDA df :
    IF df = KeyError \/ df = NoDataFoundException
    THEN [raised |-> FALSE,
          rr |-> ReaderResult(LibName, ticker, None, FALSE),
          store |-> st, log |-> lg1]
    ELSE IF empty(df)
    THEN [raised |-> TRUE, rr |-> None, store |-> st, log |-> lg1]
    ELSE
    Let(parse_date(index_min(df)), LAMBDA db_start :
    Let(parse_date(index_max(df)), LAMBDA db_end :
    Let(IF lower_missing(db_start, start)
        THEN _from_web(st, lg1, ticker, source, start, MinusBDay(db_start))
        ELSE [raised |-> FALSE, rr |-> [df |-> None],
              store |-> st, log |-> lg1],
        LAMBDA lower :
    IF lower.raised THEN lower
    ELSE
    Let(IF upper_missing(db_end, end)
        THEN _from_web(lower.store, lower.log, ticker, source, db_end, end)
        ELSE [raised |-> FALSE, rr |-> [df |-> None],
              store |-> lower.store, log |-> lower.log],
        LAMBDA upper :
    IF upper.raised THEN upper
    ELSE
    [raised |-> FALSE,
     rr |-> ReaderResult(LibName, ticker,
                         _concat_dfs(lower.rr.df, upper.rr.df, df), TRUE),
     store |-> upper.store, log |-> upper.log]))))))

\* _single_get_data with a slip: an empty cache read is given up on instead
\* of falling through to the web.
_single_get_data_no_fallback(st, lg, ticker, source, start, end, check_db, filter_data) ==
    Let(IF check_db
        THEN _from_db(st, lg, ticker, source, start, end, filter_data)
        ELSE [raised |-> TRUE, rr |-> None, store |-> st, log |-> lg],
        LAMBDA db :
    IF check_db /\ ~db.raised
    THEN [rr |-> db.rr, store |-> db.store, log |-> db.log]
    ELSE IF check_db
    THEN [rr |-> ReaderResult(LibName, ticker, None, FALSE),
          store |-> db.store, log |-> db.log]
    ELSE Let(_from_web(db.store, db.log, ticker, source, start, end),
             LAMBDA w : [rr |-> w.rr, store |-> w.store, log |-> w.log]))

\* _single_get_data with a slip: the library is consulted whatever check_db
\* says.
_single_get_data_always_db(st, lg, ticker, source, start, end, check_db, filter_data) ==
    Let(_from_db(st, lg, ticker, source, start, end, filter_data),
        LAMBDA db :
    IF ~db.raised
    THEN [rr |-> db.rr, store |-> db.store, log |-> db.log]
    ELSE Let(_from_web(db.store, db.log, ticker, source, start, end),
             LAMBDA w : [rr |-> w.rr, store |-> w.store, log |-> w.log]))

\* _single_get_data with a slip: the full range is fetched after a cache
\* hit as well.
_single_get_data_refetches(st, lg, ticker, source, start, end, check_db, filter_data) ==
    Let(IF check_db
        THEN _from_db(st, lg, ticker, source, start, end, filter_data)
        ELSE [raised |-> TRUE, rr |-> None, store |-> st, log |-> lg],
        LAMBDA db :
    Let(_from_web(db.store, db.log, ticker, source, start, end),
        LAMBDA w :
    IF check_db /\ ~db.raised
    THEN [rr |-> db.rr, store |-> w.store, log |-> w.log]
    ELSE [rr |-> w.rr, store |-> w.store, log |-> w.log]))

\* BarReader._single_get_data: one pool task, or the single-ticker call.
_single_get_data(st, lg, ticker, source, start, end, check_db, filter_data) ==
    Let(IF check_db
        THEN _from_db(st, lg, ticker, source, start, end, filter_data)
        ELSE [raised |-> TRUE, rr |-> None, store |-> st, log |-> lg],
        LAMBDA db :
    IF check_db /\ ~db.raised
    THEN [rr |-> db.rr, store |-> db.store, log |-> db.log]
    ELSE Let(_from_web(db.store, db.log, ticker, source, start, end),
             LAMBDA w :
         IF w.raised
         THEN [rr |-> ReaderResult(LibName, ticker, None, FALSE),
               store |-> w.store, log |-> w.log]
         ELSE [rr |-> w.rr, store |-> w.store, log |-> w.log]))

----------------------------------------------------------------------------
(* ARCTIC_STORE and BarReader.__init__ *)

\* The library names readers are constructed for.
LibNames == {LibName, "ticks"}

\* A name ARCTIC_STORE does not list.
NotListed == [listed |-> FALSE]

\* A library: the symbols it holds and how many times initialize_library
\* has made it since the process started.
Library(symbols, inits) == [symbols |-> symbols, inits |-> inits]

\* list_libraries with a slip: no library is ever reported.
list_libraries_none(a) == {}

\* ARCTIC_STORE.list_libraries()
list_libraries(a) == {n \in DOMAIN a : a[n] # NotListed}

\* ARCTIC_STORE.initialize_library(lib_name, BarStore.LIBRARY_TYPE): a fresh,
\* empty library under that name.
initialize_library(a, lib_name) ==
    [a EXCEPT ![lib_name] =
        Library({}, IF a[lib_name] = NotListed THEN 1
                    ELSE a[lib_name].inits + 1)]

\* ARCTIC_STORE[lib_name]: the handle of a listed library.
getitem(a, lib_name) ==
    IF lib_name \in {n \in DOMAIN a : a[n] # NotListed}
    THEN [library |-> lib_name]
    ELSE [exc |-> "LibraryNotFoundException"]

\* The store with one listed library of the given symbols and the reader
\* constructed for it.
ArcticWith(symbols) ==
    [n \in LibNames |-> IF n = LibName THEN Library(symbols, 0)
                        ELSE NotListed]
TheReader == [lib_name |-> LibName, lib |-> [library |-> LibName]]

----------------------------------------------------------------------------
(* State machine *)

Pending == [pending |-> TRUE]
NoReq == [none |-> TRUE]
NoOut == [kind |-> "none"]

\* Sets of trading days the library or the provider may hold for a ticker:
\* the trading days of an interval of the window.
DaySets == {TradeDays(a, b) : a \in Days, b \in Days}

\* Library states of the single-ticker specification: symbol "A" is absent
\* or holds the bars of some interval; the other symbols are absent.
StoreStates ==
    {[t \in Tickers |-> IF t = "A" THEN o ELSE Absent] :
        o \in {Absent} \cup {Frame("A", S, "db") : S \in DaySets}}

\* Provider states: the provider has every trading day from some day on, or
\* up to some day, or nothing.
WebSets == {TradeDays(a, MaxDay) : a \in Days}
               \cup {TradeDays(0, b) : b \in Days} \cup {{}}

Init ==
    /\ store \in StoreStates
    /\ arctic = ArcticWith({t \in Tickers : store[t] # Absent})
    /\ readers = <<TheReader>>
    /\ web \in {[t \in Tickers |-> S] : S \in WebSets}
    /\ down \in {{}, {"A"}}
    /\ keyfault \in {{}, {"A"}}
    /\ phase = "idle"
    /\ req = NoReq
    /\ res = <<>>
    /\ log = <<>>
    /\ out = NoOut

\* get_data(tickers: str): lines 88-102.  start and end are the dates as
\* sanitize_dates returns them (start <= end).
GetDataStr(ticker, source, start, end, check_db, filter_data) ==
    /\ phase = "idle"
    /\ start <= end
    /\ \E r \in {_single_get_data(store, <<>>, ticker, source, start, end,
                                  check_db, filter_data)} :
          /\ store' = r.store
          /\ res' = <<r.rr>>
          /\ log' = <<r.log>>
          /\ out' = [kind |-> "return", value |-> r.rr.df]
    /\ req' = [is_str |-> TRUE, tickers |-> <<ticker>>, source |-> source,
               start |-> start, end |-> end, check_db |-> check_db,
               filter_data |-> filter_data]
    /\ phase' = "done"
    /\ UNCHANGED <<arctic, readers, web, down, keyfault>>

\* The caller repeats the get_data(tickers: str) call it has just made, with
\* the same arguments, on the library as the first call left it; the
\* provider is as it was.
GetDataAgain ==
    /\ phase = "done"
    /\ req.is_str
    /\ \E r \in {_single_get_data(store, <<>>, req.tickers[1], req.source,
                                  req.start, req.end, req.check_db,
                                  req.filter_data)} :
          /\ store' = r.store
          /\ res' = Append(res, r.rr)
          /\ log' = Append(log, r.log)
          /\ out' = [kind |-> "return", value |-> r.rr.df]
    /\ phase' = "again"
    /\ UNCHANGED <<arctic, readers, web, down, keyfault, req>>

\* get_data(tickers: a list): lines 103-113 and the pool of lines 126-138.
\* One task per element of tickers; ThreadPool(0) raises ValueError.
GetDataList(tickers, source, start, end, check_db, filter_data) ==
    /\ phase = "idle"
    /\ start <= end
    /\ req' = [is_str |-> FALSE, tickers |-> tickers, source |-> source,
               start |-> start, end |-> end, check_db |-> check_db,
               filter_data |-> filter_data]
    /\ res' = [i \in 1..Len(tickers) |-> Pending]
    /\ log' = [i \in 1..Len(tickers) |-> <<>>]
    /\ IF Len(tickers) = 0
       THEN /\ phase' = "done"
            /\ out' = [kind |-> "raise", exc |-> "ValueError"]
       ELSE /\ phase' = "running"
            /\ out' = NoOut
    /\ UNCHANGED <<arctic, readers, store, web, down, keyfault>>

\* Task with a slip: the result goes to the first free slot, so that the
\* results come in completion order instead of request order.
Task_completion_order(i) ==
    /\ phase = "running"
    /\ i \in DOMAIN res
    /\ res[i] = Pending
    /\ \E r \in {_single_get_data(store, <<>>, req.tickers[i], req.source,
                                  req.start, req.end, req.check_db,
                                  req.filter_data)} :
          /\ store' = r.store
          /\ res' = [res EXCEPT ![SetMin({j \in DOMAIN res : res[j] = Pending})] = r.rr]
          /\ log' = [log EXCEPT ![i] = r.log]
    /\ UNCHANGED <<arctic, readers, web, down, keyfault, phase, req, out>>

\* Pool task i: _single_get_data for the i-th ticker (lines 131-137).
Task(i) ==
    /\ phase = "running"
    /\ i \in DOMAIN res
    /\ res[i] = Pending
    /\ \E r \in {_single_get_data(store, <<>>, req.tickers[i], req.source,
                                  req.start, req.end, req.check_db,
                                  req.filter_data)} :
          /\ store' = r.store
          /\ res' = [res EXCEPT ![i] = r.rr]
          /\ log' = [log EXCEPT ![i] = r.log]
    /\ UNCHANGED <<arctic, readers, web, down, keyfault, phase, req, out>>

\* nan_copy with a slip: the copy is taken but never blanked.
nan_copy_not_blanked(df) == df

\* df_na = df.copy(); df_na[:] = np.nan
nan_copy(df) ==
    [df EXCEPT !.rows =
        [i \in 1..Len(df.rows) |-> [c \in DOMAIN df.rows[i] |-> NaN]]]

\* The tickers of the results that are (un)successful, in result order.
RECURSIVE tickers_where(_, _)
tickers_where(results, ok) ==
    IF results = <<>> THEN <<>>
    ELSE (IF results[1].successful = ok THEN <<results[1].ticker>> ELSE <<>>)
             \o tickers_where(Tail(results), ok)

\* stocks_of with a slip: every key gets the df of the first successful
\* result.
stocks_of_first(results) ==
    [t \in {results[i].ticker : i \in {j \in DOMAIN results :
                                           results[j].successful}} |->
        results[SetMin({j \in DOMAIN results : results[j].successful})].df]

\* stocks after the loop of lines 140-145: the df of the last successful
\* result of each ticker.
stocks_of(results) ==
    [t \in {results[i].ticker : i \in {j \in DOMAIN results :
                                           results[j].successful}} |->
        LET last == SetMax({j \in DOMAIN results :
                               results[j].successful /\ results[j].ticker = t})
        IN results[last].df]

\* The object each key of stocks refers to after the loop of lines 140-145:
\* the frame that the last successful task of that ticker returned.
objs_of(results) ==
    [t \in {results[i].ticker : i \in {j \in DOMAIN results :
                                           results[j].successful}} |->
        [task |-> SetMax({j \in DOMAIN results :
                             results[j].successful /\ results[j].ticker = t})]]

\* The object df_na is bound to: the one copy taken at line 151 of the frame
\* of the first successful task.
df_na_obj(results) ==
    [copy_of |-> SetMin({j \in DOMAIN results : results[j].successful})]

\* stocks once df_na has been made from stocks[template] (lines 151-152):
\* .copy() gives df_na cells of its own, so blanking them leaves every
\* entry of stocks as it was.
stocks_after_df_na(stocks, template) == stocks

\* _mult_tickers_get_data with a slip: the failed tickers get no entry.
_mult_tickers_get_data_no_placeholder(results) ==
    IF Len(tickers_where(results, TRUE)) = 0
    THEN [kind |-> "raise", exc |-> "DataAccessError",
          msg |-> "No data could be retrieved."]
    ELSE [kind |-> "return", value |-> stocks_of(results),
          obj |-> objs_of(results)]

\* _mult_tickers_get_data with a slip: no ticker passed, and the empty
\* mapping is returned.
_mult_tickers_get_data_returns_empty(results) ==
    [kind |-> "return", value |-> stocks_of(results),
     obj |-> objs_of(results)]

\* _mult_tickers_get_data, lines 140-158: what it returns or raises once
\* the pool has given every result.  value is the mapping by content, obj
\* tells which frame object each key is bound to.
_mult_tickers_get_data(results) ==
    LET stocks == stocks_of(results)
        passed == tickers_where(results, TRUE)
        failed == tickers_where(results, FALSE)
    IN
    IF Len(passed) = 0
    THEN [kind |-> "raise", exc |-> "DataAccessError",
          msg |-> "No data could be retrieved."]
    ELSE IF Cardinality(DOMAIN stocks) > 0 /\ Len(failed) > 0 /\ Len(passed) > 0
    THEN LET df_na == nan_copy(stocks[passed[1]]) IN
         [kind |-> "return",
          value |-> [t \in DOMAIN stocks \cup Range(failed) |->
                        IF t \in Range(failed) THEN df_na
                        ELSE stocks_after_df_na(stocks, passed[1])[t]],
          obj |-> [t \in DOMAIN stocks \cup Range(failed) |->
                      IF t \in Range(failed) THEN df_na_obj(results)
                      ELSE objs_of(results)[t]]]
    ELSE [kind |-> "return", value |-> stocks, obj |-> objs_of(results)]

\* Collect with a slip: the outcome is made from the results at hand as soon
\* as one task has finished.
Collect_early ==
    /\ phase = "running"
    /\ \E i \in DOMAIN res : res[i] # Pending
    /\ out' = _mult_tickers_get_data(SelectSeq(res, LAMBDA r : r # Pending))
    /\ phase' = "done"
    /\ UNCHANGED <<arctic, readers, store, web, down, keyfault, req, res, log>>

\* result.get() has returned: lines 138-158, and get_data passes the
\* outcome on (lines 106-115).
Collect ==
    /\ phase = "running"
    /\ \A i \in DOMAIN res : res[i] # Pending
    /\ out' = _mult_tickers_get_data(res)
    /\ phase' = "done"
    /\ UNCHANGED <<arctic, readers, store, web, down, keyfault, req, res, log>>

\* The caller is done with what get_data gave it; the reader is ready for
\* the next call.  The library, the provider and the faults stay as they are.
Forget ==
    /\ phase \in {"done", "again"}
    /\ phase' = "idle"
    /\ req' = NoReq
    /\ res' = <<>>
    /\ log' = <<>>
    /\ out' = NoOut
    /\ UNCHANGED <<arctic, readers, store, web, down, keyfault>>

Next ==
    \/ \E source \in Sources, start \in Days, end \in Days,
          check_db \in BOOLEAN :
            GetDataStr("A", source, start, end, check_db, TRUE)
    \/ GetDataAgain
    \/ Forget

\* Library and provider states of the batch specification: each symbol is
\* absent or holds one bar, and the provider has every trading day of the
\* window for a ticker or nothing.
BatchDay == 1
BatchStoreStates ==
    [Tickers -> {"absent", "bar"}]
BatchStore(choice) ==
    [t \in Tickers |-> IF choice[t] = "absent" THEN Absent
                       ELSE Frame(t, {BatchDay}, "db")]

InitBatch ==
    /\ store \in {BatchStore(c) : c \in BatchStoreStates}
    /\ arctic = ArcticWith({t \in Tickers : store[t] # Absent})
    /\ readers = <<TheReader>>
    /\ web \in [Tickers -> {TradeDays(0, MaxDay), {}}]
    /\ down = {}
    /\ keyfault = {}
    /\ phase = "idle"
    /\ req = NoReq
    /\ res = <<>>
    /\ log = <<>>
    /\ out = NoOut

\* The ticker collections of a batch call: up to one task per ticker name,
\* repeats allowed.
TickerLists == UNION {[1..n -> Tickers] : n \in 0..Cardinality(Tickers)}

NextBatch ==
    \/ \E tickers \in TickerLists, start \in 0..BatchDay,
          end \in BatchDay..(BatchDay + 1), check_db \in BOOLEAN :
            GetDataList(tickers, GOOGLE, start, end, check_db, TRUE)
    \/ \E i \in 1..Cardinality(Tickers) : Task(i)
    \/ Collect
    \/ Forget

SpecBatch == InitBatch /\ [][NextBatch]_vars

\* The provider stops answering for a ticker while a batch is in its pool:
\* from now on pdr.DataReader raises RemoteDataError for it.
ProviderGoesDown(t) ==
    /\ phase = "running"
    /\ t \notin down
    /\ down' = down \cup {t}
    /\ UNCHANGED <<arctic, readers, store, web, keyfault, phase, req, res,
                   log, out>>

\* The batch specification with a provider that may fail for ticker "A"
\* between two tasks of one batch.
NextBatchFlaky ==
    \/ NextBatch
    \/ ProviderGoesDown("A")

SpecBatchFlaky == InitBatch /\ [][NextBatchFlaky]_vars

\* The batch specification with the pool's scheduling: a task that is ready
\* to run is run by a worker, and result.get() returns once every task has
\* finished.
SpecBatchLive ==
    /\ SpecBatch
    /\ \A i \in 1..Cardinality(Tickers) : WF_vars(Task(i))
    /\ WF_vars(Collect)

Spec == Init /\ [][Next]_vars

\* Readers constructed one after the other on a store that lists any of the
\* libraries, each with some symbols, or none.
MaxReaders == 3
SymbolSets == {{}, {"A"}, {"A", "B"}}

InitStore ==
    /\ arctic \in [LibNames -> {NotListed} \cup {Library(S, 0) : S \in SymbolSets}]
    /\ readers = <<>>
    /\ store = [t \in Tickers |-> Absent]
    /\ web = [t \in Tickers |-> {}]
    /\ down = {}
    /\ keyfault = {}
    /\ phase = "idle"
    /\ req = NoReq
    /\ res = <<>>
    /\ log = <<>>
    /\ out = NoOut

\* BarReader(lib_name): lines 47-55.
Construct(lib_name) ==
    /\ Len(readers) < MaxReaders
    /\ \E a \in {IF lib_name \notin list_libraries(arctic)
                  THEN initialize_library(arctic, lib_name)
                  ELSE arctic} :
          /\ arctic' = a
          /\ readers' = Append(readers, [lib_name |-> lib_name,
                                         lib |-> getitem(a, lib_name)])
    /\ UNCHANGED <<store, web, down, keyfault, phase, req, res, log, out>>

NextStore == \E lib_name \in LibNames : Construct(lib_name)

SpecStore == InitStore /\ [][NextStore]_vars

----------------------------------------------------------------------------
(* What a finished single-ticker call shows *)

SingleDone == phase = "done" /\ req.is_str
TheTicker == req.tickers[1]

\* What the cache read of the call gave.
Cached == lib_read(store, TheTicker, req.start, req.end)
CacheFailed == Cached = KeyError \/ Cached = NoDataFoundException
CacheEmpty == ~CacheFailed /\ empty(Cached)
CacheHit == ~CacheFailed /\ ~empty(Cached)

\* The days the provider has for t in [a, b], and whether a call for them
\* gives rows.
WebDays(t, a, b) == {d \in web[t] : a <= d /\ d <= b}
Answers(t, a, b) == t \notin down /\ WebDays(t, a, b) # {}

IsWebCall(e) == e.op = "DataReader"
WebCalls(lg) == SelectSeq(lg, IsWebCall)

TheRead == ReadEvent(TheTicker, req.start, req.end)
FullFetch == WebEvent(TheTicker, req.source, req.start, req.end)

\* rr is what one provider call over [a, b] comes to.
IsFetchResult(rr, a, b) ==
    IF Answers(TheTicker, a, b)
    THEN rr = ReaderResult(LibName, TheTicker,
                           Frame(TheTicker, WebDays(TheTicker, a, b),
                                 req.source), TRUE)
    ELSE rr = ReaderResult(LibName, TheTicker, None, FALSE)

FellBackToFullFetch ==
    /\ log[1] = <<TheRead, FullFetch>>
    /\ IsFetchResult(res[1], req.start, req.end)

\* C1: with check_db, when the cache read fails on an absent symbol or a
\* key-lookup fault, exactly the full-range remote fetch follows and its
\* result is what the call returns.
C1_CacheFailureFallsBack ==
    (SingleDone /\ req.check_db /\ CacheFailed) => FellBackToFullFetch

\* C2: with check_db, when the cache read gives an empty series, no edge is
\* backfilled: exactly one remote fetch, over [start, end], is made and its
\* result is what the call returns.
C2_EmptyCacheFallsBack ==
    (SingleDone /\ req.check_db /\ CacheEmpty) => FellBackToFullFetch

C2_Witness ==
    /\ SingleDone /\ req.check_db /\ CacheEmpty
    /\ store[TheTicker] # Absent /\ ~empty(store[TheTicker])
    /\ res[1].successful

\* The bounds of the cached series and the two edge fetches they call for.
DbStart == parse_date(index_min(Cached))
DbEnd == parse_date(index_max(Cached))
LowerFetch == WebEvent(TheTicker, req.source, req.start, MinusBDay(DbStart))
UpperFetch == WebEvent(TheTicker, req.source, DbEnd, req.end)
WebFrame(a, b) == Frame(TheTicker, WebDays(TheTicker, a, b), req.source)

\* C3: on a non-empty cache read with neither edge missing, no remote call
\* is made and the cached series is returned unchanged, as a success.
C3_CacheSufficiency ==
    (/\ SingleDone /\ req.check_db /\ CacheHit
     /\ (DbStart <= req.start \/ ~is_trade_day(req.start))
     /\ (DbEnd >= req.end \/ ~is_trade_day(req.end)))
    => /\ log[1] = <<TheRead>>
       /\ res[1] = ReaderResult(LibName, TheTicker, Cached, TRUE)
       /\ out = [kind |-> "return", value |-> Cached]

C3_Witness ==
    /\ SingleDone /\ req.check_db /\ CacheHit
    /\ DbStart > req.start /\ ~is_trade_day(req.start)
    /\ DbEnd = req.end
    /\ Len(Cached.index) >= 2
    /\ Answers(TheTicker, req.start, req.end)

StrictlyIncreasing(s) == \A i \in 1..(Len(s) - 1) : s[i] < s[i + 1]
NoDuplicates(s) == \A i, j \in DOMAIN s : i # j => s[i] # s[j]

\* C5: every series returned as a success has strictly increasing dates.
C5_DatesStrictlyIncreasing ==
    (SingleDone /\ res[1].successful) => StrictlyIncreasing(res[1].df.index)

\* C6: when the cache covers [a, b], the request is [s, e] with s < a and
\* b < e, s and e are trading days and the provider has every trading day,
\* the result holds every trading day of [s, e] and no date twice.
C6_BackfillCoversRangeOnce ==
    (/\ SingleDone /\ req.check_db /\ CacheHit
     /\ Range(Cached.index) = TradeDays(DbStart, DbEnd)
     /\ req.start < DbStart /\ DbEnd < req.end
     /\ is_trade_day(req.start) /\ is_trade_day(req.end)
     /\ TheTicker \notin down
     /\ web[TheTicker] = TradeDays(0, MaxDay))
    => /\ res[1].successful
       /\ TradeDays(req.start, req.end) \subseteq Range(res[1].df.index)
       /\ NoDuplicates(res[1].df.index)

\* C7: on a cache hit, a start that is no trading day leaves the lower edge
\* unfetched and an end that is no trading day leaves the upper edge
\* unfetched, whatever the cached bounds.
C7_NonTradingDayGate ==
    (SingleDone /\ req.check_db /\ CacheHit)
    => /\ ~is_trade_day(req.start)
            => \A e \in Range(WebCalls(log[1])) : e = UpperFetch
       /\ ~is_trade_day(req.end)
            => \A e \in Range(WebCalls(log[1])) : e = LowerFetch

C7_Witness ==
    /\ SingleDone /\ req.check_db /\ CacheHit
    /\ ~is_trade_day(req.start) /\ req.start < DbStart
    /\ WebCalls(log[1]) = <<UpperFetch>>

\* The frames the edge fetches of the log brought back.
UpperRows ==
    IF UpperFetch \in Range(log[1]) /\ Answers(TheTicker, DbEnd, req.end)
    THEN <<WebFrame(DbEnd, req.end)>> ELSE <<>>
LowerRows ==
    IF LowerFetch \in Range(log[1])
        /\ Answers(TheTicker, req.start, MinusBDay(DbStart))
    THEN <<WebFrame(req.start, MinusBDay(DbStart))>> ELSE <<>>

\* C8: a non-empty cache read always ends in a success; a failed edge fetch
\* adds no rows, and when every edge fetch made has failed the series is the
\* cached one.
C8_BackfillFailureNotFatal ==
    (SingleDone /\ req.check_db /\ CacheHit)
    => /\ res[1].successful
       /\ res[1].df = pd_concat(<<Cached>> \o UpperRows \o LowerRows)
       /\ (UpperRows = <<>> /\ LowerRows = <<>>) => res[1].df = Cached

C8_Witness ==
    /\ SingleDone /\ req.check_db /\ CacheHit
    /\ log[1] = <<TheRead, LowerFetch, UpperFetch>>
    /\ UpperRows = <<>> /\ LowerRows = <<>>
    /\ res[1].successful

\* Every bar of frame f is in frame g: same date, same columns.
BarsWithin(f, g) ==
    \A i \in DOMAIN f.index :
        \E j \in DOMAIN g.index :
            g.index[j] = f.index[i] /\ g.rows[j] = f.rows[i]

\* C9: when both edges are missing both fetches are made, the upper one
\* whatever the lower one gave, and the rows of an edge that succeeded are
\* in the result whatever the other edge gave.
C9_EdgesIndependent ==
    (/\ SingleDone /\ req.check_db /\ CacheHit
     /\ lower_missing(DbStart, req.start)
     /\ upper_missing(DbEnd, req.end))
    => /\ log[1] = <<TheRead, LowerFetch, UpperFetch>>
       /\ res[1].successful
       /\ \A k \in DOMAIN UpperRows : BarsWithin(UpperRows[k], res[1].df)
       /\ \A k \in DOMAIN LowerRows : BarsWithin(LowerRows[k], res[1].df)

C9_Witness ==
    /\ SingleDone /\ req.check_db /\ CacheHit
    /\ lower_missing(DbStart, req.start)
    /\ upper_missing(DbEnd, req.end)
    /\ LowerRows = <<>> /\ UpperRows # <<>>
    /\ \E j \in DOMAIN res[1].df.index : res[1].df.index[j] = req.end

----------------------------------------------------------------------------
(* What a finished batch call shows *)

BatchDone == phase = "done" /\ ~req.is_str

\* C10: a batch that returns has exactly the requested tickers as its keys,
\* and a batch raises only when no ticker succeeded.
C10_BatchKeyCompleteness ==
    BatchDone
    => /\ out.kind \in {"return", "raise"}
       /\ out.kind = "return" => DOMAIN out.value = Range(req.tickers)
       /\ out.kind = "raise" <=> \A i \in DOMAIN res : ~res[i].successful

C10_Witness ==
    /\ BatchDone /\ out.kind = "return"
    /\ Cardinality(Range(req.tickers)) = 3
    /\ \E i, j \in DOMAIN res : res[i].successful /\ ~res[j].successful

\* The results of a finished batch that passed and that failed, and the
\* first one that passed.
PassedTasks == {i \in DOMAIN res : res[i].successful}
FailedTasks == {i \in DOMAIN res : ~res[i].successful}
MixedOutcome == BatchDone /\ PassedTasks # {} /\ FailedTasks # {}
FirstPassed == res[SetMin(PassedTasks)]

Columns(df) == {DOMAIN df.rows[i] : i \in DOMAIN df.rows}

\* C11: in a mixed outcome the entry of every failed ticker has the date
\* index and the columns of the series of the first successful ticker of the
\* request, and the missing-value marker in every cell.
C11_PlaceholderShape ==
    MixedOutcome
    => /\ out.kind = "return"
       /\ \A i \in FailedTasks :
            LET ph == out.value[res[i].ticker] IN
            /\ ph.index = FirstPassed.df.index
            /\ ph.index_name = FirstPassed.df.index_name
            /\ Len(ph.rows) = Len(FirstPassed.df.rows)
            /\ Columns(ph) = Columns(FirstPassed.df)
            /\ \A k \in DOMAIN ph.rows :
                  \A c \in DOMAIN ph.rows[k] : ph.rows[k][c] = NaN

C11_Witness ==
    /\ MixedOutcome
    /\ Cardinality(FailedTasks) = 1
    /\ Cardinality(PassedTasks) = 2
    /\ Len(FirstPassed.df.index) >= 2
    /\ \E i \in PassedTasks : res[i].df.index # FirstPassed.df.index

\* C12: when every task of a non-empty batch failed, the batch raises
\* DataAccessError 'No data could be retrieved.', returns no mapping, and
\* get_data passes that error on.
C12_BatchTotalFailure ==
    (BatchDone /\ Len(req.tickers) > 0 /\ PassedTasks = {})
    => out = [kind |-> "raise", exc |-> "DataAccessError",
              msg |-> "No data could be retrieved."]

C12_Witness ==
    /\ BatchDone /\ PassedTasks = {}
    /\ Cardinality(Range(req.tickers)) = 3
    /\ out.kind = "raise"

\* C13: a single-ticker call whose _single_get_data failed raises an error;
\* it never returns normally.
C13_SingleTickerFailureRaises ==
    (SingleDone /\ ~res[1].successful) => out.kind = "raise"

\* C14: when every task succeeded the batch returns a mapping in which every
\* requested ticker has exactly the series its own task returned.
C14_BatchAllSucceeded ==
    (BatchDone /\ Len(req.tickers) > 0 /\ FailedTasks = {})
    => /\ out.kind = "return"
       /\ DOMAIN out.value = Range(req.tickers)
       /\ \A i \in DOMAIN res :
            /\ res[i].ticker = req.tickers[i]
            /\ out.value[req.tickers[i]] = res[i].df

C14_Witness ==
    /\ BatchDone /\ FailedTasks = {}
    /\ Cardinality(Range(req.tickers)) = 3
    /\ \E i, j \in DOMAIN res : res[i].df.index # res[j].df.index

----------------------------------------------------------------------------
(* The remote fetches of a single-ticker call *)

\* C15: with check_db false the library is never read, exactly one remote
\* fetch, over [start, end], is made and its outcome is what the call gives.
C15_NoCacheGoesStraightToWeb ==
    (SingleDone /\ ~req.check_db)
    => /\ log[1] = <<FullFetch>>
       /\ IsFetchResult(res[1], req.start, req.end)

C15_Witness ==
    /\ SingleDone /\ ~req.check_db
    /\ CacheHit
    /\ DbStart > req.start /\ is_trade_day(req.start)
    /\ res[1].successful

\* C17: _from_web gives a failed result for an empty response and for a
\* provider error, and raises in neither case: so it is for every fetch the
\* call has made.
C17_FetchFailureIsAValue ==
    SingleDone
    => \A e \in Range(WebCalls(log[1])) :
          LET r == _from_web(store, <<>>, e.ticker, e.source, e.start, e.end)
          IN /\ ~r.raised
             /\ r.rr.successful <=> Answers(e.ticker, e.start, e.end)
             /\ ~Answers(e.ticker, e.start, e.end)
                  => r.rr = ReaderResult(LibName, e.ticker, None, FALSE)

\* A fetch that failed on an empty response, in a call that went on to
\* return.
C17_Witness ==
    /\ SingleDone /\ ~req.check_db
    /\ TheTicker \notin down
    /\ WebDays(TheTicker, req.start, req.end) = {}
    /\ web[TheTicker] # {}
    /\ log[1] = <<FullFetch>>
    /\ ~res[1].successful /\ out.kind = "return"

\* The _from_web invocations the call's control flow makes, in order.
FetchesInvoked ==
    IF ~req.check_db \/ CacheEmpty THEN <<FullFetch>>
    ELSE IF CacheFailed THEN <<>>
    ELSE (IF lower_missing(DbStart, req.start) THEN <<LowerFetch>> ELSE <<>>)
         \o (IF upper_missing(DbEnd, req.end) THEN <<UpperFetch>> ELSE <<>>)

\* C18: every invocation of _from_web makes exactly one provider call,
\* whether the call gives rows, gives none, or errors.
C18_OneProviderCallPerFetch ==
    SingleDone => WebCalls(log[1]) = FetchesInvoked

\* Both edges fetched with the provider down for the ticker: each fetch
\* errors and each was made once.
C18_Witness ==
    /\ SingleDone /\ req.check_db /\ CacheHit
    /\ TheTicker \in down
    /\ WebCalls(log[1]) = <<LowerFetch, UpperFetch>>

\* The full-range fetch of last resort was made: the library was not to be
\* consulted, or its read came back empty.
LastResortMade ==
    (~req.check_db \/ CacheEmpty) /\ FullFetch \in Range(log[1])

\* C19: a call fails only when the full-range fetch of last resort was made
\* and failed, and whenever that fetch fails the call gives a failed result
\* instead of raising.
C19_FailureOnlyFromLastResort ==
    SingleDone
    => /\ ~res[1].successful
            => (LastResortMade /\ ~Answers(TheTicker, req.start, req.end))
       /\ (LastResortMade /\ ~Answers(TheTicker, req.start, req.end))
            => (~res[1].successful /\ out.kind = "return")

----------------------------------------------------------------------------
(* Repeated calls and batch completion *)

SingleAgain == phase = "again"

BatchOn == phase \in {"running", "done"} /\ ~req.is_str

\* One slot per requested ticker, each filled for that ticker, and no
\* outcome while a slot is still pending.
BatchTasksMatchRequest ==
    BatchOn
    => /\ DOMAIN res = DOMAIN req.tickers
       /\ DOMAIN log = DOMAIN req.tickers
       /\ \A i \in DOMAIN res :
             res[i] # Pending => res[i].ticker = req.tickers[i]
       /\ (\E i \in DOMAIN res : res[i] = Pending)
             => (phase = "running" /\ out = NoOut)
       /\ phase = "done" => out # NoOut

\* A task's result, once given, is not given again while the batch is on.
TaskRunsOnce ==
    phase = "running"
    => \A i \in DOMAIN res : res[i] # Pending => res'[i] = res[i]

\* C20: a batch call has exactly one task per requested ticker, gives its
\* outcome (mapping or error) only after every task has finished, never
\* while one is still pending, and, the tasks all finishing, does give it.
C20_BatchCompletion ==
    /\ []BatchTasksMatchRequest
    /\ [][TaskRunsOnce]_vars
    /\ (phase = "running") ~> (phase = "done")

\* A batch of three different tickers has finished and returned a mapping.
C20_Witness ==
    /\ BatchDone
    /\ Cardinality(Range(req.tickers)) = 3
    /\ \A i \in DOMAIN res : res[i] # Pending
    /\ out.kind = "return"

----------------------------------------------------------------------------
(* Batch tasks against each other *)

\* The results of the tasks of request r run one after the other in request
\* order, from task i on, on library st.
RECURSIVE SequentialResults(_, _, _)
SequentialResults(st, r, i) ==
    IF i > Len(r.tickers) THEN <<>>
    ELSE Let(_single_get_data(st, <<>>, r.tickers[i], r.source, r.start,
                              r.end, r.check_db, r.filter_data),
             LAMBDA t : <<t.rr>> \o SequentialResults(t.store, r, i + 1))

C22_CompatibleShape ==
    MixedOutcome
    => /\ out.kind = "return"
       /\ \A t, u \in DOMAIN out.value :
             /\ out.value[t].index = out.value[u].index
             /\ out.value[t].index_name = out.value[u].index_name
             /\ Columns(out.value[t]) = Columns(out.value[u])

\* C23: no two tickers of a returned mapping are bound to the same frame
\* object, the tickers that failed and got a placeholder included.
C23_BarsNeverShared ==
    (BatchDone /\ out.kind = "return")
    => \A t, u \in DOMAIN out.obj : t # u => out.obj[t] # out.obj[u]

----------------------------------------------------------------------------
(* The edges of a cache hit *)

IsNotUpperFetch(e) == e # UpperFetch
IsNotLowerFetch(e) == e # LowerFetch

\* The remote calls of the task other than the upper-edge one, and other
\* than the lower-edge one.
LowerCalls == SelectSeq(WebCalls(log[1]), IsNotUpperFetch)
UpperCalls == SelectSeq(WebCalls(log[1]), IsNotLowerFetch)

\* C24: on a cache hit a lower-edge fetch is made exactly when db_start is
\* after start and start is a trading day; it is one fetch, from start to
\* the last business day before db_start, and asks for no cached date.
C24_LowerEdgeBackfill ==
    (SingleDone /\ req.check_db /\ CacheHit)
    => /\ LowerCalls # <<>>
            <=> (DbStart > req.start /\ is_trade_day(req.start))
       /\ Len(LowerCalls) <= 1
       /\ \A e \in Range(LowerCalls) :
             /\ e.ticker = TheTicker /\ e.source = req.source
             /\ e.start = req.start
             /\ e.end < DbStart /\ is_trade_day(e.end)
             /\ \A d \in (e.end + 1)..(DbStart - 1) : ~is_trade_day(d)
             /\ \A d \in Range(Cached.index) : ~(e.start <= d /\ d <= e.end)

\* A lower edge fetched across a weekend.
C24_Witness ==
    /\ SingleDone /\ req.check_db /\ CacheHit
    /\ LowerCalls = <<LowerFetch>>
    /\ DbStart - LowerFetch.end = 3
    /\ Answers(TheTicker, req.start, LowerFetch.end)

\* C25: on a cache hit an upper-edge fetch is made exactly when db_end is
\* before end and end is a trading day; it is one fetch, from db_end to end.
C25_UpperEdgeBackfill ==
    (SingleDone /\ req.check_db /\ CacheHit)
    => /\ UpperCalls # <<>>
            <=> (DbEnd < req.end /\ is_trade_day(req.end))
       /\ Len(UpperCalls) <= 1
       /\ \A e \in Range(UpperCalls) :
             /\ e.ticker = TheTicker /\ e.source = req.source
             /\ e.start = DbEnd
             /\ e.end = req.end

C25_Witness ==
    /\ SingleDone /\ req.check_db /\ CacheHit
    /\ UpperCalls = <<UpperFetch>>
    /\ DbEnd > req.start
    /\ LowerCalls = <<>>
    /\ Answers(TheTicker, DbEnd, req.end)

IndexOf(frames) == IF frames = <<>> THEN <<>> ELSE frames[1].index
RowsOf(frames) == IF frames = <<>> THEN <<>> ELSE frames[1].rows

\* C26: the merged series is the cached rows, then the rows of the upper
\* edge if its fetch succeeded, then those of the lower edge if its fetch
\* succeeded, each row as it was.
C26_MergeOrder ==
    (SingleDone /\ req.check_db /\ CacheHit)
    => /\ res[1].df.index
            = Cached.index \o IndexOf(UpperRows) \o IndexOf(LowerRows)
       /\ res[1].df.rows
            = Cached.rows \o RowsOf(UpperRows) \o RowsOf(LowerRows)
       /\ res[1].df.index_name = Cached.index_name

C26_Witness ==
    /\ SingleDone /\ req.check_db /\ CacheHit
    /\ UpperRows # <<>> /\ LowerRows # <<>>
    /\ Len(Cached.index) >= 2
    /\ Len(res[1].df.index) >= 5

----------------------------------------------------------------------------
(* The source parameter *)

OtherSource == CHOOSE x \in Sources : x # req.source

\* The same call with the other source, on the same library and provider.
Twin ==
    _single_get_data(store, <<>>, TheTicker, OtherSource, req.start, req.end,
                     req.check_db, req.filter_data)

\* A log entry without the source it names.
Unsourced(e) == [op |-> e.op, ticker |-> e.ticker, start |-> e.start,
                 end |-> e.end]
UnsourcedLog(lg) == [i \in DOMAIN lg |-> Unsourced(lg[i])]

\* C27: two calls that differ only in source make the same cache read and
\* the same fetches over the same date ranges, and give the same result
\* when no fetch is made.
C27_SourceOnlyForRemoteCalls ==
    SingleDone
    => /\ UnsourcedLog(Twin.log) = UnsourcedLog(log[1])
       /\ \A i \in DOMAIN log[1] :
             IsWebCall(log[1][i])
                => (log[1][i].source = req.source
                       /\ Twin.log[i].source = OtherSource)
       /\ WebCalls(log[1]) = <<>> => Twin.rr = res[1]

\* Both edges were fetched and the results of the two sources differ.
C27_Witness ==
    /\ SingleDone /\ req.check_db /\ CacheHit
    /\ WebCalls(log[1]) = <<LowerFetch, UpperFetch>>
    /\ res[1].successful
    /\ Twin.rr # res[1]

----------------------------------------------------------------------------
(* Construction of readers *)

\* Every reader is bound to the library of its name, and that library is
\* listed.
ReadersBound ==
    \A i \in DOMAIN readers :
        /\ arctic[readers[i].lib_name] # NotListed
        /\ readers[i].lib = [library |-> readers[i].lib_name]

\* A construction initializes the library of its name when the store does
\* not list it and leaves it as it is when the store does; no other library
\* is touched, and nothing but a construction touches any.
ConstructionInitializesOnce ==
    IF readers' # readers
    THEN LET n == readers'[Len(readers')].lib_name IN
         /\ readers' = Append(readers, readers'[Len(readers')])
         /\ arctic[n] = NotListed => arctic'[n] = Library({}, 1)
         /\ arctic[n] # NotListed => arctic'[n] = arctic[n]
         /\ \A m \in LibNames \ {n} : arctic'[m] = arctic[m]
    ELSE arctic' = arctic

\* C28: constructing a reader initializes its library if and only if the
\* store does not list it; a listed library keeps its contents and is never
\* initialized again; after construction the library is listed and the
\* reader is bound to it, for any sequence of constructions.
C28_StoreHandleInitialization ==
    /\ []ReadersBound
    /\ [][ConstructionInitializesOnce]_vars

\* Two readers made for one name that the store did not list at first, and
\* one for a library that held symbols before.
C28_Witness ==
    /\ Len(readers) = 3
    /\ readers[1].lib_name = readers[2].lib_name
    /\ arctic[readers[1].lib_name] = Library({}, 1)
    /\ arctic[readers[3].lib_name] = Library({"A", "B"}, 0)

----------------------------------------------------------------------------
(* Empty batches and the traffic of one call *)

\* C29: a batch in which no ticker passed, the batch of no tickers included,
\* raises DataAccessError 'No data could be retrieved.' and no other error.
C29_EmptyBatchFailsWithNoData ==
    (BatchDone /\ Len(tickers_where(res, TRUE)) = 0)
    => /\ out.kind = "raise"
       /\ out.exc = "DataAccessError"

\* The number of entries of a task's log that are the event e.
Count(lg, e) == Cardinality({i \in DOMAIN lg : lg[i] = e})

\* C30: one single-ticker call makes at most two remote fetches.  After a
\* cache hit they are edge fetches only, each edge at most once; a
\* full-range fetch is made only when there was no cache hit, and then it is
\* the only fetch.
C30_BoundedRemoteTraffic ==
    SingleDone
    => /\ Len(WebCalls(log[1])) <= 2
       /\ (req.check_db /\ CacheHit)
            => /\ \A e \in Range(WebCalls(log[1])) :
                     e = LowerFetch \/ e = UpperFetch
               /\ Count(log[1], LowerFetch) <= 1
               /\ Count(log[1], UpperFetch) <= 1
               /\ Len(WebCalls(log[1]))
                     = Count(log[1], LowerFetch) + Count(log[1], UpperFetch)
       /\ ~(req.check_db /\ CacheHit)
            => /\ Len(WebCalls(log[1])) <= 1
               /\ \A e \in Range(WebCalls(log[1])) : e = FullFetch

\* Both edges fetched and both failed: still no full-range fetch.
C30_Witness ==
    /\ SingleDone /\ req.check_db /\ CacheHit
    /\ log[1] = <<TheRead, LowerFetch, UpperFetch>>
    /\ ~Answers(TheTicker, req.start, req.end)
    /\ DbEnd > req.start
    /\ FullFetch \notin Range(log[1])

----------------------------------------------------------------------------
(* Successful tickers in a returned mapping *)

\* C31: in a returned mapping every ticker for which some task of the batch
\* succeeded is bound to the frame one of its successful tasks returned,
\* never to the placeholder, also when the ticker was requested more than
\* once and the provider answered the requests differently.
C31_SuccessNeverOverwritten ==
    (BatchDone /\ out.kind = "return")
    => \A i \in PassedTasks :
          \E j \in PassedTasks :
              /\ res[j].ticker = res[i].ticker
              /\ out.value[res[i].ticker] = res[j].df
              /\ out.obj[res[i].ticker] = [task |-> j]

\* C32: in a mixed outcome every ticker that passed still has, cell for
\* cell, the frame its task returned, the ticker the placeholder was copied
\* from included; none of its cells is the missing-value marker.
C32_PlaceholderLeavesDataUntouched ==
    MixedOutcome
    => \A i \in PassedTasks :
          LET t == res[i].ticker IN
          /\ out.value[t] = res[i].df
          /\ \A k \in DOMAIN out.value[t].rows :
                \A c \in DOMAIN out.value[t].rows[k] :
                    out.value[t].rows[k][c] # NaN

====
